---- MODULE Spec2Model ----
(***************************************************************************)
(* Batch engines of the sale-deed processor.                               *)
(*                                                                         *)
(*   pipeline : PipelineBatchProcessor.process_batch driving               *)
(*              PDFProcessorV2.process_stage1_ocr / process_stage2_llm     *)
(*   legacy   : BatchProcessor.process_batch driving                       *)
(*              PDFProcessor.process_single_pdf                            *)
(*   vision   : VisionBatchProcessor.process_batch driving                 *)
(*              VisionBatchProcessor._process_single_image                 *)
(*                                                                         *)
(* One behaviour is one process_batch run of one of the three engines      *)
(* (the engine, the number of files and the pool sizes are fixed in Init). *)
(* Items are numbered 1..nfiles in the order of the list handed to         *)
(* process_batch.  A ThreadPoolExecutor is modelled by its contract: the   *)
(* submitted work items wait in a FIFO intake, a work item starts when     *)
(* fewer than max_workers work items of that pool are executing, and       *)
(* shutdown(wait=False) without cancel_futures leaves the intake in place: *)
(* the pool's threads keep taking the queued work items.                   *)
(*                                                                         *)
(* A stop check followed by the start of the next sub-step is one step:    *)
(* starting a sub-step reads no shared state, so a stop() between the      *)
(* check and the start is the same as a stop() right after the start.      *)
(* The time a sub-step takes is the time the item stays in that step.      *)
(***************************************************************************)
EXTENDS Integers, Sequences, FiniteSets, TLC

\* ---------------------------------------------------------------- bounds
MaxItems == 2
MaxWorkers == 2
\* the start requests of one behaviour of the API
MaxStarts == 2

\* config.py: STAGE2_QUEUE_SIZE
STAGE2_QUEUE_SIZE == 2
\* config.py: MAX_OCR_WORKERS, MAX_LLM_WORKERS, OCR_PAGE_WORKERS
MAX_OCR_WORKERS == 5
MAX_LLM_WORKERS == 5
OCR_PAGE_WORKERS == 2

Modes == {"pipeline", "legacy", "vision"}
Terminal == {"success", "failed", "stopped"}
Done == Terminal \cup {"raised"}

VARIABLES
    mode,             \* which engine this run is
    nfiles,           \* len(pdf_files) / len(image_files)
    max_ocr_workers,  \* pool size of the first pool (max_workers of legacy and vision)
    max_llm_workers,  \* pool size of the LLM pool (pipeline only)
    is_running,       \* self.is_running
    stats,            \* self.stats: total, processed, successful, failed, stopped
    results,          \* the local list results of process_batch
    pc,               \* position of the thread executing process_batch
    stage1_futures,   \* state of each future of the first pool
    stage2_futures,   \* state of each future of the LLM pool ("none": not submitted)
    step,             \* the sub-step an executing item is in
    yielded1,         \* futures of the first pool that as_completed has handed out
    yielded2,         \* futures of the LLM pool that as_completed has handed out
    llm_queue,        \* intake of llm_executor, in submission order
    loc,              \* where the item's file is
    saved,            \* a record of the item was committed by this run
    summary,          \* the dict process_batch returned
    stop_requested,   \* history: stop() was called during the run
    pending_at_stop,  \* history: items not yet started when stop() was called
    running_at_stop,  \* history: items executing when stop() was called
    waiting_at_stop,  \* history: items between the stages when stop() was called
    move_failed,      \* history: items whose shutil.move / os.remove raised
    vision_input,     \* history: what the vision service and the lookup returned
    track_order,      \* whether finish_order and early2 are kept in this behaviour
    finish_order,     \* history: the futures in the order they finished
    early2,           \* history: the stage-2 futures finished when loop 2 began
    db,               \* the tables _save_to_database writes, as lists of rows
    last_call,        \* history: the last _save_to_database call
    snapshot,         \* the dict the last get_stats call returned
    counters,         \* self.stats: ocr_active, llm_active, in_queue
    kwargs,           \* per thread: the arguments evaluated for its update_stats call
    returning,        \* per item: what the stage function handed to the finally clause
    settings,         \* app.config.settings: the fields the start route overrides
    tasks,            \* the process_batch calls the start route handed to BackgroundTasks
    response,         \* what the last call of the start route answered
    nrequests         \* how many times the start route was called

vars == <<mode, nfiles, max_ocr_workers, max_llm_workers, is_running, stats,
          results, pc, stage1_futures, stage2_futures, step, yielded1,
          yielded2, llm_queue, loc, saved, summary, stop_requested,
          pending_at_stop, running_at_stop, waiting_at_stop, move_failed,
          vision_input, track_order, finish_order, early2, db, last_call, snapshot,
          counters, kwargs, returning, settings, tasks, response, nrequests>>

cfgVars == <<mode, nfiles, max_ocr_workers, max_llm_workers, track_order>>
fileVars == <<loc, move_failed, vision_input>>
dbVars == <<db, last_call>>
counterVars == <<counters, kwargs, returning>>
histVars == <<stop_requested, pending_at_stop, running_at_stop, waiting_at_stop>>
routeVars == <<settings, tasks, response, nrequests>>

Items == 1..nfiles
\* room for the largest batch of any specification below
AllItems == 1..(IF MaxItems > STAGE2_QUEUE_SIZE THEN MaxItems ELSE STAGE2_QUEUE_SIZE + 1)

ZeroStats == [total |-> 0, processed |-> 0, successful |-> 0, failed |-> 0, stopped |-> 0]

\* the threads that call update_stats: 0 runs process_batch, i > 0 is the pool
\* thread working on item i
Threads == {0} \cup AllItems
NoKwargs == [ocr_active |-> 0, llm_active |-> 0, in_queue |-> 0]
NoSummary == [returned |-> FALSE]
NoInput == [fee |-> "pending", prop_exists |-> FALSE]

\* ------------------------------------------------- the persisted records
\* bound: the longest buyer_details / seller_details list of one extraction
MaxParties == 2

DocumentIds == {"d1", "d2"}
Dates == {"t1", "t2"}
PartyLists == UNION {[1..n -> {"a"}] : n \in 0..MaxParties}

\* the cleaned extraction handed to _save_to_database
ExtractedData ==
    [transaction_date : Dates, buyer_details : PartyLists, seller_details : PartyLists]

EmptyDb == [document_details |-> <<>>, property_details |-> <<>>,
            buyer_details |-> <<>>, seller_details |-> <<>>]
NoCall == [document_id |-> "none", committed |-> FALSE, rerun |-> FALSE,
           data |-> [transaction_date |-> "t1", buyer_details |-> <<>>,
                     seller_details |-> <<>>],
           old_buyers |-> <<>>, status |-> "none", file |-> "source"]

\* ------------------------------------------------------------- helpers

Executing1 == {i \in Items : stage1_futures[i] = "running"}
Executing2 == {i \in Items : stage2_futures[i] = "running"}
Queued1 == {i \in Items : stage1_futures[i] = "queued"}

\* ThreadPoolExecutor: a queued work item is taken when a thread of the pool is free
WorkerAvailable_off(active, max_workers) == active <= max_workers
WorkerAvailable(active, max_workers) == active < max_workers

\* the work queue of the first pool is FIFO: items were submitted in list order
NextQueued1(i) == i \in Queued1 /\ \A j \in Queued1 : i <= j

\* _update_completion_stats: one more processed, one more of the result's status
UpdateCompletionStats_alwaysSuccessful(st, status) ==
    [st EXCEPT !.processed = @ + 1,
               !.successful = @ + 1,
               !.failed = @ + (IF status = "failed" THEN 1 ELSE 0),
               !.stopped = @ + (IF status = "stopped" THEN 1 ELSE 0)]
UpdateCompletionStats(st, status) ==
    [st EXCEPT !.processed = @ + 1,
               !.successful = @ + (IF status = "success" THEN 1 ELSE 0),
               !.failed = @ + (IF status = "failed" THEN 1 ELSE 0),
               !.stopped = @ + (IF status = "stopped" THEN 1 ELSE 0)]

\* FileHandler.move_file: the file is at the destination, or (shutil.move
\* raised, logged, None returned) where it was
MoveFile_toFailedDir(cur, dest, ok) == IF ok THEN "failed" ELSE cur
MoveFile_wrongDirectory(cur, dest, ok) == IF ok THEN "processed" ELSE cur
MoveFile(cur, dest, ok) == IF ok THEN dest ELSE cur

\* the except clauses of a stage function: ProcessingStoppedException leaves the
\* file alone, any other exception moves it to FAILED_DIR if it still exists
RouteOnAbort_stoppedAsFailure(status, cur, ok) ==
    IF cur = "source" THEN MoveFile(cur, "failed", ok) ELSE cur
RouteOnAbort(status, cur, ok) ==
    IF status = "failed" /\ cur = "source" THEN MoveFile(cur, "failed", ok) ELSE cur

\* whether a stage function that ends with this status calls move_file
MoveAttempted(status, cur) ==
    status = "success" \/ (status = "failed" /\ cur = "source")

\* bookkeeping of every step, kept where track_order is set: finish_order
\* gains the future the step finished, early2 is fixed when the second
\* as_completed call is made.
\* The steps of a run touch neither the tables (SpecDb applies
\* _save_to_database to them) nor a reader's snapshot; the gauges ocr_active,
\* llm_active and in_queue are followed in SpecCounters alone, where each of
\* their updates is two steps.
Ghost ==
    LET done1 == {i \in Items : stage1_futures'[i] \in Done /\ stage1_futures[i] \notin Done}
        done2 == {i \in Items : stage2_futures'[i] \in Done /\ stage2_futures[i] \notin Done}
    IN  /\ finish_order' =
              IF track_order /\ done1 # {}
                 THEN Append(finish_order, [stage |-> 1, item |-> CHOOSE i \in done1 : TRUE])
              ELSE IF track_order /\ done2 # {}
                 THEN Append(finish_order, [stage |-> 2, item |-> CHOOSE i \in done2 : TRUE])
              ELSE finish_order
        /\ early2' = IF track_order /\ pc = "loop1" /\ pc' = "loop2"
                        THEN {i \in Items : stage2_futures[i] \in Done}
                        ELSE early2
        /\ UNCHANGED <<dbVars, snapshot, counterVars, routeVars>>

\* ------------------------------------------------------ _save_to_database

\* query(...).filter(document_id == id): the rows of a table for the identity
RowsOf(table, id) == SelectSeq(table, LAMBDA r : r.document_id = id)

\* .first(): the position of the first such row
FirstRow(table, id) ==
    CHOOSE k \in 1..Len(table) :
        table[k].document_id = id /\ \A j \in 1..(k - 1) : table[j].document_id # id

\* DocumentDetail: created if the query finds none, else its fields are set
UpsertDocument(table, id, data) ==
    IF RowsOf(table, id) = <<>>
       THEN Append(table, [document_id |-> id, transaction_date |-> data.transaction_date])
       ELSE [table EXCEPT ![FirstRow(table, id)].transaction_date = data.transaction_date]

\* PropertyDetail: created if the query finds none
UpsertProperty(table, id) ==
    IF RowsOf(table, id) = <<>> THEN Append(table, [document_id |-> id]) ELSE table

\* query(...).filter(document_id == id).delete()
DeleteParties_kept(table, id) == table
DeleteParties(table, id) == SelectSeq(table, LAMBDA r : r.document_id # id)

\* the insert loops: one row per entry of the list, in list order
InsertParties(table, id, parties) ==
    table \o [k \in 1..Len(parties) |-> [document_id |-> id, name |-> parties[k]]]

\* the tables after a _save_to_database call that reaches db.commit()
SaveToDatabase(d, id, data) ==
    [document_details |-> UpsertDocument(d.document_details, id, data),
     property_details |-> UpsertProperty(d.property_details, id),
     buyer_details |-> InsertParties(DeleteParties(d.buyer_details, id), id,
                                     data.buyer_details),
     seller_details |-> InsertParties(DeleteParties(d.seller_details, id), id,
                                      data.seller_details)]

\* the statements of _save_to_database in order: the document upsert and
\* flush, the property upsert and flush, the two deletes, the insert loops,
\* db.commit(); `point` of them were executed when one raised
SavePoints == 0..4
SessionAt(d, id, data, point) ==
    [document_details |-> IF point >= 1 THEN UpsertDocument(d.document_details, id, data)
                                        ELSE d.document_details,
     property_details |-> IF point >= 2 THEN UpsertProperty(d.property_details, id)
                                        ELSE d.property_details,
     buyer_details |-> IF point >= 4
                          THEN InsertParties(DeleteParties(d.buyer_details, id), id,
                                             data.buyer_details)
                          ELSE IF point = 3 THEN DeleteParties(d.buyer_details, id)
                          ELSE d.buyer_details,
     seller_details |-> IF point >= 4
                           THEN InsertParties(DeleteParties(d.seller_details, id), id,
                                              data.seller_details)
                           ELSE IF point = 3 THEN DeleteParties(d.seller_details, id)
                           ELSE d.seller_details]

\* the extractions tried in calls that raise: a changed date and the same
\* list of buyers and sellers
RaisingData ==
    {data \in ExtractedData : /\ data.transaction_date = "t2"
                              /\ data.seller_details = data.buyer_details}

\* db.rollback() in the except clause: the tables are what they were before the
\* call, whatever the session had flushed
Rollback_flushedKept(before, session) == session
Rollback(before, session) == before

\* ---------------------------------------------------------------- Init

\* the state after construction of the processor, for a batch of n files
InitWith(m, n, w1, w2) ==
    /\ mode = m
    /\ nfiles = n
    /\ max_ocr_workers = w1
    /\ max_llm_workers = w2
    /\ is_running = FALSE
    /\ stats = ZeroStats
    /\ results = <<>>
    /\ pc = "idle"
    /\ stage1_futures = [i \in AllItems |-> "none"]
    /\ stage2_futures = [i \in AllItems |-> "none"]
    /\ step = [i \in AllItems |-> "none"]
    /\ yielded1 = {}
    /\ yielded2 = {}
    /\ llm_queue = <<>>
    /\ loc = [i \in AllItems |-> "source"]
    /\ move_failed = {}
    /\ vision_input = [i \in AllItems |-> NoInput]
    /\ finish_order = <<>>
    /\ early2 = {}
    /\ db = EmptyDb
    /\ last_call = NoCall
    /\ snapshot = ZeroStats
    /\ counters = NoKwargs
    /\ kwargs = [t \in Threads |-> NoKwargs]
    /\ returning = [i \in AllItems |-> "none"]
    /\ settings = [STAGE2_QUEUE_SIZE |-> STAGE2_QUEUE_SIZE,
                   OCR_PAGE_WORKERS |-> OCR_PAGE_WORKERS]
    /\ tasks = [k \in 1..MaxStarts |-> "none"]
    /\ response = "none"
    /\ nrequests = 0
    /\ saved = [i \in AllItems |-> FALSE]
    /\ summary = NoSummary
    /\ stop_requested = FALSE
    /\ pending_at_stop = {}
    /\ running_at_stop = {}
    /\ waiting_at_stop = {}

Init ==
    \E m \in Modes, n \in 0..MaxItems, w1 \in 1..MaxWorkers :
        \E w2 \in (IF m = "pipeline" THEN 1..MaxWorkers ELSE {1}) :
            InitWith(m, n, w1, w2) /\ track_order = FALSE

\* ------------------------------------------------- process_batch: start

\* process_batch up to the end of the submit loop (all three engines)
ProcessBatchStart ==
    /\ pc = "idle"
    /\ is_running' = TRUE
    /\ stats' = [ZeroStats EXCEPT !.total = nfiles]
    /\ results' = <<>>
    /\ stage1_futures' = [i \in AllItems |-> IF i \in Items THEN "queued" ELSE "none"]
    /\ pc' = "loop1"
    /\ UNCHANGED <<cfgVars, stage2_futures, step, yielded1, yielded2, llm_queue,
                   fileVars, saved, summary, histVars>>
    /\ Ghost

\* stop(): self.is_running = False  (the routes call it only while is_running)
Stop ==
    /\ pc \in {"loop1", "loop2", "exiting"}
    /\ is_running
    /\ is_running' = FALSE
    /\ stop_requested' = TRUE
    /\ pending_at_stop' = Queued1
    /\ running_at_stop' = Executing1 \cup Executing2
    /\ waiting_at_stop' = {i \in Items : stage1_futures[i] = "success"
                                          /\ stage2_futures[i] \in {"none", "queued"}}
    /\ UNCHANGED <<cfgVars, stats, results, pc, stage1_futures, stage2_futures,
                   step, yielded1, yielded2, llm_queue, fileVars, saved, summary>>
    /\ Ghost

\* ------------------------------------------------------- pipeline, stage 1

\* a thread of ocr_executor takes the next work item: _stage1_ocr enters
\* get_db_context (which may raise) and process_stage1_ocr makes its first stop check
Stage1Start(i) ==
    /\ mode = "pipeline"
    /\ pc # "idle"
    /\ NextQueued1(i)
    /\ WorkerAvailable(Cardinality(Executing1), max_ocr_workers)
    /\ \/ /\ stage1_futures' = [stage1_futures EXCEPT ![i] = "raised"]
          /\ step' = step
       \/ /\ is_running
          /\ stage1_futures' = [stage1_futures EXCEPT ![i] = "running"]
          /\ step' = [step EXCEPT ![i] = "fee"]
       \/ /\ ~is_running
          /\ stage1_futures' = [stage1_futures EXCEPT ![i] = "stopped"]
          /\ step' = step
    /\ UNCHANGED <<cfgVars, is_running, stats, results, pc, stage2_futures,
                   yielded1, yielded2, llm_queue, fileVars, saved, summary, histVars>>
    /\ Ghost

\* reg_fee_extractor.extract returned; stop check, then OCR starts
Stage1FeeDone(i) ==
    /\ mode = "pipeline"
    /\ stage1_futures[i] = "running" /\ step[i] = "fee"
    /\ IF is_running
          THEN /\ step' = [step EXCEPT ![i] = "ocr"]
               /\ stage1_futures' = stage1_futures
          ELSE /\ step' = [step EXCEPT ![i] = "none"]
               /\ stage1_futures' = [stage1_futures EXCEPT ![i] = "stopped"]
    /\ UNCHANGED <<cfgVars, is_running, stats, results, pc, stage2_futures,
                   yielded1, yielded2, llm_queue, fileVars, saved, summary, histVars>>
    /\ Ghost

\* ocr_service.get_full_text returned (or raised): insufficient text fails the
\* item (the file is not moved); otherwise stop check, the optional fee
\* extraction from the text, and the Stage1Result is returned
Stage1OcrDone(i) ==
    /\ mode = "pipeline"
    /\ stage1_futures[i] = "running" /\ step[i] = "ocr"
    /\ \E text_ok \in BOOLEAN :
          stage1_futures' = [stage1_futures EXCEPT ![i] =
              IF ~text_ok THEN "failed"
              ELSE IF ~is_running THEN "stopped" ELSE "success"]
    /\ step' = [step EXCEPT ![i] = "none"]
    /\ UNCHANGED <<cfgVars, is_running, stats, results, pc, stage2_futures,
                   yielded1, yielded2, llm_queue, fileVars, saved, summary, histVars>>
    /\ Ghost

\* ------------------------------------------------------- pipeline, stage 2

Submitted2 == {i \in Items : stage2_futures[i] # "none"}

\* how process_stage2_llm leaves an item: the last step moves the file to
\* PROCESSED_DIR, the except clauses route it
Finish2(i, status, ok) ==
    /\ stage2_futures' = [stage2_futures EXCEPT ![i] = status]
    /\ step' = [step EXCEPT ![i] = "none"]
    /\ loc' = [loc EXCEPT ![i] = IF status = "success"
                                    THEN MoveFile(@, "processed", ok)
                                    ELSE RouteOnAbort(status, @, ok)]
    /\ move_failed' = IF MoveAttempted(status, loc[i]) /\ ~ok
                          THEN move_failed \cup {i} ELSE move_failed
    /\ vision_input' = vision_input

\* a thread of llm_executor takes the next work item: _stage2_llm enters
\* get_db_context (which may raise) and process_stage2_llm makes its first stop check
Stage2Start(i) ==
    /\ mode = "pipeline"
    /\ llm_queue # <<>> /\ Head(llm_queue) = i
    /\ WorkerAvailable(Cardinality(Executing2), max_llm_workers)
    /\ llm_queue' = Tail(llm_queue)
    /\ \/ /\ stage2_futures' = [stage2_futures EXCEPT ![i] = "raised"]
          /\ step' = step
       \/ /\ is_running
          /\ stage2_futures' = [stage2_futures EXCEPT ![i] = "running"]
          /\ step' = [step EXCEPT ![i] = "llm"]
       \/ /\ ~is_running
          /\ stage2_futures' = [stage2_futures EXCEPT ![i] = "stopped"]
          /\ step' = step
    /\ UNCHANGED <<cfgVars, is_running, stats, results, pc, stage1_futures,
                   yielded1, yielded2, fileVars, saved, summary, histVars>>
    /\ Ghost

\* llm_service.extract_structured_data returned: nothing extracted fails the
\* item; stop check; validate_and_clean_data (in memory, raises on malformed
\* data); stop check, then _save_to_database starts
Stage2LlmDone(i) ==
    /\ mode = "pipeline"
    /\ stage2_futures[i] = "running" /\ step[i] = "llm"
    /\ \E extracted, valid, ok \in BOOLEAN :
          IF ~extracted THEN Finish2(i, "failed", ok)
          ELSE IF ~is_running THEN Finish2(i, "stopped", ok)
          ELSE IF ~valid THEN Finish2(i, "failed", ok)
          ELSE /\ step' = [step EXCEPT ![i] = "save"]
               /\ UNCHANGED <<stage2_futures, fileVars>>
    /\ UNCHANGED <<cfgVars, is_running, stats, results, pc, stage1_futures,
                   yielded1, yielded2, llm_queue, saved, summary, histVars>>
    /\ Ghost

\* a process_stage2_llm that moves the file before looking at the outcome of
\* _save_to_database
Stage2SaveDone_moveBeforeCommit(i) ==
    /\ mode = "pipeline"
    /\ stage2_futures[i] = "running" /\ step[i] = "save"
    /\ \E committed, ok \in BOOLEAN :
          /\ saved' = [saved EXCEPT ![i] = committed]
          /\ Finish2(i, "success", ok)
    /\ UNCHANGED <<cfgVars, is_running, stats, results, pc, stage1_futures,
                   yielded1, yielded2, llm_queue, summary, histVars>>
    /\ Ghost

\* _save_to_database committed (or rolled back and raised); stop check; with a
\* pdfplumber fee the file moves to PROCESSED_DIR at once, else YOLO starts
Stage2SaveDone(i) ==
    /\ mode = "pipeline"
    /\ stage2_futures[i] = "running" /\ step[i] = "save"
    /\ \E committed, has_fee, ok \in BOOLEAN :
          /\ saved' = [saved EXCEPT ![i] = committed]
          /\ IF ~committed THEN Finish2(i, "failed", ok)
             ELSE IF ~is_running THEN Finish2(i, "stopped", ok)
             ELSE IF has_fee THEN Finish2(i, "success", ok)
             ELSE /\ step' = [step EXCEPT ![i] = "yolo"]
                  /\ UNCHANGED <<stage2_futures, fileVars>>
    /\ UNCHANGED <<cfgVars, is_running, stats, results, pc, stage1_futures,
                   yielded1, yielded2, llm_queue, summary, histVars>>
    /\ Ghost

\* _detect_and_save_table returned (it swallows its errors); the file moves to
\* PROCESSED_DIR
Stage2YoloDone(i) ==
    /\ mode = "pipeline"
    /\ stage2_futures[i] = "running" /\ step[i] = "yolo"
    /\ \E ok \in BOOLEAN : Finish2(i, "success", ok)
    /\ UNCHANGED <<cfgVars, is_running, stats, results, pc, stage1_futures,
                   yielded1, yielded2, llm_queue, saved, summary, histVars>>
    /\ Ghost

\* ------------------------------------------- pipeline, process_batch loops

Record(i, status) ==
    /\ results' = Append(results, [id |-> i, status |-> status])
    /\ stats' = UpdateCompletionStats(stats, status)

\* an as_completed that hands a finished stage-1 future out more than once
PipelineCollect1_handedOutAgain(i) ==
    /\ mode = "pipeline"
    /\ pc = "loop1"
    /\ i \in Items
    /\ stage1_futures[i] \in Done
    /\ yielded1' = yielded1 \cup {i}
    /\ IF ~is_running
          THEN /\ pc' = "exiting"
               /\ UNCHANGED <<stats, results, stage2_futures, llm_queue>>
          ELSE /\ pc' = pc
               /\ IF stage1_futures[i] = "success"
                     THEN /\ stage2_futures' = [stage2_futures EXCEPT ![i] = "queued"]
                          /\ llm_queue' = Append(llm_queue, i)
                          /\ UNCHANGED <<stats, results>>
                     ELSE /\ Record(i, IF stage1_futures[i] = "raised"
                                          THEN "failed" ELSE stage1_futures[i])
                          /\ UNCHANGED <<stage2_futures, llm_queue>>
    /\ UNCHANGED <<cfgVars, is_running, stage1_futures, step, yielded2, fileVars,
                   saved, summary, histVars>>
    /\ Ghost

\* first as_completed loop: one finished stage-1 future is handed out
PipelineCollect1(i) ==
    /\ mode = "pipeline"
    /\ pc = "loop1"
    /\ i \in Items \ yielded1
    /\ stage1_futures[i] \in Done
    /\ yielded1' = yielded1 \cup {i}
    /\ IF ~is_running
          THEN /\ pc' = "exiting"
               /\ UNCHANGED <<stats, results, stage2_futures, llm_queue>>
          ELSE /\ pc' = pc
               /\ IF stage1_futures[i] = "success"
                     THEN /\ stage2_futures' = [stage2_futures EXCEPT ![i] = "queued"]
                          /\ llm_queue' = Append(llm_queue, i)
                          /\ UNCHANGED <<stats, results>>
                     ELSE /\ Record(i, IF stage1_futures[i] = "raised"
                                          THEN "failed" ELSE stage1_futures[i])
                          /\ UNCHANGED <<stage2_futures, llm_queue>>
    /\ UNCHANGED <<cfgVars, is_running, stage1_futures, step, yielded2, fileVars,
                   saved, summary, histVars>>
    /\ Ghost

\* the first as_completed loop is exhausted
PipelineEndLoop1 ==
    /\ mode = "pipeline"
    /\ pc = "loop1"
    /\ yielded1 = Items
    /\ pc' = "loop2"
    /\ UNCHANGED <<cfgVars, is_running, stats, results, stage1_futures,
                   stage2_futures, step, yielded1, yielded2, llm_queue, fileVars,
                   saved, summary, histVars>>
    /\ Ghost

\* second as_completed loop: one finished stage-2 future is handed out
PipelineCollect2(i) ==
    /\ mode = "pipeline"
    /\ pc = "loop2"
    /\ i \in Submitted2 \ yielded2
    /\ stage2_futures[i] \in Done
    /\ yielded2' = yielded2 \cup {i}
    /\ IF ~is_running
          THEN /\ pc' = "exiting"
               /\ UNCHANGED <<stats, results>>
          ELSE /\ pc' = pc
               /\ Record(i, IF stage2_futures[i] = "raised"
                               THEN "failed" ELSE stage2_futures[i])
    /\ UNCHANGED <<cfgVars, is_running, stage1_futures, stage2_futures, step,
                   yielded1, llm_queue, fileVars, saved, summary, histVars>>
    /\ Ghost

\* the second as_completed loop is exhausted: the with block is left
PipelineEndLoop2 ==
    /\ mode = "pipeline"
    /\ pc = "loop2"
    /\ yielded2 = Submitted2
    /\ pc' = "exiting"
    /\ UNCHANGED <<cfgVars, is_running, stats, results, stage1_futures,
                   stage2_futures, step, yielded1, yielded2, llm_queue, fileVars,
                   saved, summary, histVars>>
    /\ Ghost

\* a process_batch whose pools are not joined before it returns
PipelineReturn_withoutJoin ==
    /\ mode = "pipeline"
    /\ pc = "exiting"
    /\ is_running' = FALSE
    /\ summary' = [total |-> nfiles, processed |-> stats.processed,
                   successful |-> stats.successful, failed |-> stats.failed,
                   stopped |-> stats.stopped, results |-> results]
    /\ pc' = "returned"
    /\ UNCHANGED <<cfgVars, stats, results, stage1_futures, stage2_futures,
                   step, yielded1, yielded2, llm_queue, fileVars, saved, histVars>>
    /\ Ghost

\* leaving the with block joins the threads of both pools (shutdown(wait=True)):
\* every submitted work item has run; then finally, the summary and return
PipelineReturn ==
    /\ mode = "pipeline"
    /\ pc = "exiting"
    /\ \A i \in Items : /\ stage1_futures[i] \in Done
                        /\ stage2_futures[i] \in Done \cup {"none"}
    /\ is_running' = FALSE
    /\ summary' = [total |-> nfiles, processed |-> stats.processed,
                   successful |-> stats.successful, failed |-> stats.failed,
                   stopped |-> stats.stopped, results |-> results]
    /\ pc' = "returned"
    /\ UNCHANGED <<cfgVars, stats, results, stage1_futures, stage2_futures,
                   step, yielded1, yielded2, llm_queue, fileVars, saved, histVars>>
    /\ Ghost

\* ------------------------------------------- legacy, process_single_pdf

\* how process_single_pdf leaves an item
Finish1(i, status, ok) ==
    /\ stage1_futures' = [stage1_futures EXCEPT ![i] = status]
    /\ step' = [step EXCEPT ![i] = "none"]
    /\ loc' = [loc EXCEPT ![i] = IF status = "success"
                                    THEN MoveFile(@, "processed", ok)
                                    ELSE RouteOnAbort(status, @, ok)]
    /\ move_failed' = IF MoveAttempted(status, loc[i]) /\ ~ok
                          THEN move_failed \cup {i} ELSE move_failed
    /\ vision_input' = vision_input

\* a thread of the pool takes the next work item: _process_with_db enters
\* get_db_context (which may raise) and process_single_pdf starts the fee
\* extraction; there is no stop check before it
LegacyStart(i) ==
    /\ mode = "legacy"
    /\ pc # "idle"
    /\ NextQueued1(i)
    /\ WorkerAvailable(Cardinality(Executing1), max_ocr_workers)
    /\ \/ /\ stage1_futures' = [stage1_futures EXCEPT ![i] = "raised"]
          /\ step' = step
       \/ /\ stage1_futures' = [stage1_futures EXCEPT ![i] = "running"]
          /\ step' = [step EXCEPT ![i] = "fee"]
    /\ UNCHANGED <<cfgVars, is_running, stats, results, pc, stage2_futures,
                   yielded1, yielded2, llm_queue, fileVars, saved, summary, histVars>>
    /\ Ghost

\* reg_fee_extractor.extract returned (it swallows its errors); STOP CHECK 1,
\* then OCR starts
LegacyFeeDone(i) ==
    /\ mode = "legacy"
    /\ stage1_futures[i] = "running" /\ step[i] = "fee"
    /\ \E ok \in BOOLEAN :
          IF ~is_running THEN Finish1(i, "stopped", ok)
          ELSE /\ step' = [step EXCEPT ![i] = "ocr"]
               /\ UNCHANGED <<stage1_futures, fileVars>>
    /\ UNCHANGED <<cfgVars, is_running, stats, results, pc, stage2_futures,
                   yielded1, yielded2, llm_queue, saved, summary, histVars>>
    /\ Ghost

\* get_full_text returned: insufficient text fails the item; STOP CHECK 2, then
\* the LLM extraction starts
LegacyOcrDone(i) ==
    /\ mode = "legacy"
    /\ stage1_futures[i] = "running" /\ step[i] = "ocr"
    /\ \E text_ok, ok \in BOOLEAN :
          IF ~text_ok THEN Finish1(i, "failed", ok)
          ELSE IF ~is_running THEN Finish1(i, "stopped", ok)
          ELSE /\ step' = [step EXCEPT ![i] = "llm"]
               /\ UNCHANGED <<stage1_futures, fileVars>>
    /\ UNCHANGED <<cfgVars, is_running, stats, results, pc, stage2_futures,
                   yielded1, yielded2, llm_queue, saved, summary, histVars>>
    /\ Ghost

\* extract_structured_data returned; STOP CHECK 3; validation (in memory);
\* STOP CHECK 4, then _save_to_database starts
LegacyLlmDone(i) ==
    /\ mode = "legacy"
    /\ stage1_futures[i] = "running" /\ step[i] = "llm"
    /\ \E extracted, valid, ok \in BOOLEAN :
          IF ~extracted THEN Finish1(i, "failed", ok)
          ELSE IF ~is_running THEN Finish1(i, "stopped", ok)
          ELSE IF ~valid THEN Finish1(i, "failed", ok)
          ELSE /\ step' = [step EXCEPT ![i] = "save"]
               /\ UNCHANGED <<stage1_futures, fileVars>>
    /\ UNCHANGED <<cfgVars, is_running, stats, results, pc, stage2_futures,
                   yielded1, yielded2, llm_queue, saved, summary, histVars>>
    /\ Ghost

\* _save_to_database committed (or rolled back and raised); STOP CHECK 5; with a
\* pdfplumber fee the file moves to PROCESSED_DIR at once, else YOLO starts
LegacySaveDone(i) ==
    /\ mode = "legacy"
    /\ stage1_futures[i] = "running" /\ step[i] = "save"
    /\ \E committed, has_fee, ok \in BOOLEAN :
          /\ saved' = [saved EXCEPT ![i] = committed]
          /\ IF ~committed THEN Finish1(i, "failed", ok)
             ELSE IF ~is_running THEN Finish1(i, "stopped", ok)
             ELSE IF has_fee THEN Finish1(i, "success", ok)
             ELSE /\ step' = [step EXCEPT ![i] = "yolo"]
                  /\ UNCHANGED <<stage1_futures, fileVars>>
    /\ UNCHANGED <<cfgVars, is_running, stats, results, pc, stage2_futures,
                   yielded1, yielded2, llm_queue, summary, histVars>>
    /\ Ghost

\* _detect_and_save_table returned; the file moves to PROCESSED_DIR
LegacyYoloDone(i) ==
    /\ mode = "legacy"
    /\ stage1_futures[i] = "running" /\ step[i] = "yolo"
    /\ \E ok \in BOOLEAN : Finish1(i, "success", ok)
    /\ UNCHANGED <<cfgVars, is_running, stats, results, pc, stage2_futures,
                   yielded1, yielded2, llm_queue, saved, summary, histVars>>
    /\ Ghost

\* --------------------------------------------- legacy, process_batch loop

\* the stats update of BatchProcessor.process_batch
LegacyUpdateStats_processedLater(st, status) ==
    [st EXCEPT !.successful = @ + (IF status = "success" THEN 1 ELSE 0),
               !.failed = @ + (IF status = "failed" THEN 1 ELSE 0),
               !.stopped = @ + (IF status = "stopped" THEN 1 ELSE 0)]
LegacyUpdateStats(st, status) ==
    [st EXCEPT !.processed = @ + 1,
               !.successful = @ + (IF status = "success" THEN 1 ELSE 0),
               !.failed = @ + (IF status = "failed" THEN 1 ELSE 0),
               !.stopped = @ + (IF status = "stopped" THEN 1 ELSE 0)]

\* the as_completed loop: one finished future is handed out; a result is
\* appended and counted, an exception is appended as failed and not counted
LegacyCollect(i) ==
    /\ mode = "legacy"
    /\ pc = "loop1"
    /\ i \in Items \ yielded1
    /\ stage1_futures[i] \in Done
    /\ yielded1' = yielded1 \cup {i}
    /\ IF ~is_running
          THEN /\ pc' = "exiting"
               /\ UNCHANGED <<stats, results>>
          ELSE /\ pc' = pc
               /\ IF stage1_futures[i] = "raised"
                     THEN /\ results' = Append(results, [id |-> i, status |-> "failed"])
                          /\ stats' = stats
                     ELSE /\ results' = Append(results, [id |-> i, status |-> stage1_futures[i]])
                          /\ stats' = LegacyUpdateStats(stats, stage1_futures[i])
    /\ UNCHANGED <<cfgVars, is_running, stage1_futures, stage2_futures, step,
                   yielded2, llm_queue, fileVars, saved, summary, histVars>>
    /\ Ghost

\* the as_completed loop is exhausted: the with block is left
LegacyEndLoop ==
    /\ mode = "legacy"
    /\ pc = "loop1"
    /\ yielded1 = Items
    /\ pc' = "exiting"
    /\ UNCHANGED <<cfgVars, is_running, stats, results, stage1_futures,
                   stage2_futures, step, yielded1, yielded2, llm_queue, fileVars,
                   saved, summary, histVars>>
    /\ Ghost

\* leaving the with block joins the pool's threads; finally, summary (which has
\* no key "stopped"), return
LegacyReturn ==
    /\ mode = "legacy"
    /\ pc = "exiting"
    /\ \A i \in Items : stage1_futures[i] \in Done
    /\ is_running' = FALSE
    /\ summary' = [total |-> nfiles, processed |-> stats.processed,
                   successful |-> stats.successful, failed |-> stats.failed,
                   results |-> results]
    /\ pc' = "returned"
    /\ UNCHANGED <<cfgVars, stats, results, stage1_futures, stage2_futures,
                   step, yielded1, yielded2, llm_queue, fileVars, saved, histVars>>
    /\ Ghost

\* ------------------------------------------- vision, _process_single_image

\* _move_to_failed: shutil.move to VISION_FAILED_DIR, errors are logged
MoveToFailed_leftInPlace(cur, ok) == cur
MoveToFailed(cur, ok) == IF ok THEN "failed" ELSE cur

\* a thread of the pool takes the next work item; _process_single_image makes
\* its stop check and calls the vision service
VisionStart(i) ==
    /\ mode = "vision"
    /\ pc # "idle"
    /\ NextQueued1(i)
    /\ WorkerAvailable(Cardinality(Executing1), max_ocr_workers)
    /\ IF is_running
          THEN /\ stage1_futures' = [stage1_futures EXCEPT ![i] = "running"]
               /\ step' = [step EXCEPT ![i] = "vision"]
          ELSE /\ stage1_futures' = [stage1_futures EXCEPT ![i] = "stopped"]
               /\ step' = step
    /\ UNCHANGED <<cfgVars, is_running, stats, results, pc, stage2_futures,
                   yielded1, yielded2, llm_queue, fileVars, saved, summary, histVars>>
    /\ Ghost

\* extract_registration_fee returned (or raised).  No positive fee, or an
\* exception: the image goes to VISION_FAILED_DIR.  A positive fee: stop check,
\* then the record of the derived document id is updated and the image is
\* removed, or no record exists and the image goes to VISION_FAILED_DIR.
VisionFeeDone(i) ==
    /\ mode = "vision"
    /\ stage1_futures[i] = "running" /\ step[i] = "vision"
    /\ step' = [step EXCEPT ![i] = "none"]
    /\ \E fee \in {"positive", "none", "error"}, ok \in BOOLEAN :
       \E prop_exists \in (IF fee = "positive" /\ is_running THEN BOOLEAN ELSE {FALSE}) :
          /\ vision_input' = [vision_input EXCEPT
                                 ![i] = [fee |-> fee, prop_exists |-> prop_exists]]
          /\ IF fee # "positive"
                THEN /\ stage1_futures' = [stage1_futures EXCEPT ![i] = "failed"]
                     /\ loc' = [loc EXCEPT ![i] = MoveToFailed(@, ok)]
                     /\ move_failed' = IF ok THEN move_failed ELSE move_failed \cup {i}
                     /\ saved' = saved
             ELSE IF ~is_running
                THEN /\ stage1_futures' = [stage1_futures EXCEPT ![i] = "stopped"]
                     /\ UNCHANGED <<loc, move_failed, saved>>
             ELSE IF prop_exists
                THEN /\ stage1_futures' = [stage1_futures EXCEPT ![i] = "success"]
                     /\ saved' = [saved EXCEPT ![i] = TRUE]
                     /\ loc' = [loc EXCEPT ![i] = IF ok THEN "deleted" ELSE @]
                     /\ move_failed' = IF ok THEN move_failed ELSE move_failed \cup {i}
             ELSE /\ stage1_futures' = [stage1_futures EXCEPT ![i] = "failed"]
                  /\ loc' = [loc EXCEPT ![i] = MoveToFailed(@, ok)]
                  /\ move_failed' = IF ok THEN move_failed ELSE move_failed \cup {i}
                  /\ saved' = saved
    /\ UNCHANGED <<cfgVars, is_running, stats, results, pc, stage2_futures,
                   yielded1, yielded2, llm_queue, summary, histVars>>
    /\ Ghost

\* --------------------------------------------- vision, process_batch loop

\* the stats update of VisionBatchProcessor.process_batch, from the result's
\* flags success and stopped
VisionUpdateStats(st, success, stopped) ==
    [st EXCEPT !.processed = @ + 1,
               !.successful = @ + (IF success THEN 1 ELSE 0),
               !.failed = @ + (IF ~success /\ ~stopped THEN 1 ELSE 0),
               !.stopped = @ + (IF stopped THEN 1 ELSE 0)]

\* the as_completed loop: one finished future is handed out
VisionCollect(i) ==
    /\ mode = "vision"
    /\ pc = "loop1"
    /\ i \in Items \ yielded1
    /\ stage1_futures[i] \in Done
    /\ yielded1' = yielded1 \cup {i}
    /\ IF ~is_running
          THEN /\ pc' = "exiting"
               /\ UNCHANGED <<stats, results>>
          ELSE /\ pc' = pc
               /\ results' = Append(results, [id |-> i, status |-> stage1_futures[i]])
               /\ stats' = VisionUpdateStats(stats, stage1_futures[i] = "success",
                                             stage1_futures[i] = "stopped")
    /\ UNCHANGED <<cfgVars, is_running, stage1_futures, stage2_futures, step,
                   yielded2, llm_queue, fileVars, saved, summary, histVars>>
    /\ Ghost

\* the as_completed loop is exhausted: the with block is left
VisionEndLoop ==
    /\ mode = "vision"
    /\ pc = "loop1"
    /\ yielded1 = Items
    /\ pc' = "exiting"
    /\ UNCHANGED <<cfgVars, is_running, stats, results, stage1_futures,
                   stage2_futures, step, yielded1, yielded2, llm_queue, fileVars,
                   saved, summary, histVars>>
    /\ Ghost

\* leaving the with block joins the pool's threads; finally, summary, return
VisionReturn ==
    /\ mode = "vision"
    /\ pc = "exiting"
    /\ \A i \in Items : stage1_futures[i] \in Done
    /\ is_running' = FALSE
    /\ summary' = [total |-> nfiles, processed |-> stats.processed,
                   successful |-> stats.successful, failed |-> stats.failed,
                   stopped |-> stats.stopped, results |-> results]
    /\ pc' = "returned"
    /\ UNCHANGED <<cfgVars, stats, results, stage1_futures, stage2_futures,
                   step, yielded1, yielded2, llm_queue, fileVars, saved, histVars>>
    /\ Ghost

\* ------------------------------------------------------- specifications

Next ==
    \/ ProcessBatchStart
    \/ Stop
    \/ \E i \in Items : Stage1Start(i)
    \/ \E i \in Items : Stage1FeeDone(i)
    \/ \E i \in Items : Stage1OcrDone(i)
    \/ \E i \in Items : Stage2Start(i)
    \/ \E i \in Items : Stage2LlmDone(i)
    \/ \E i \in Items : Stage2SaveDone(i)
    \/ \E i \in Items : Stage2YoloDone(i)
    \/ \E i \in Items : PipelineCollect1(i)
    \/ PipelineEndLoop1
    \/ \E i \in Items : PipelineCollect2(i)
    \/ PipelineEndLoop2
    \/ PipelineReturn
    \/ \E i \in Items : LegacyStart(i)
    \/ \E i \in Items : LegacyFeeDone(i)
    \/ \E i \in Items : LegacyOcrDone(i)
    \/ \E i \in Items : LegacyLlmDone(i)
    \/ \E i \in Items : LegacySaveDone(i)
    \/ \E i \in Items : LegacyYoloDone(i)
    \/ \E i \in Items : LegacyCollect(i)
    \/ LegacyEndLoop
    \/ LegacyReturn
    \/ \E i \in Items : VisionStart(i)
    \/ \E i \in Items : VisionFeeDone(i)
    \/ \E i \in Items : VisionCollect(i)
    \/ VisionEndLoop
    \/ VisionReturn

Spec == Init /\ [][Next]_vars

\* the run under fair scheduling: the threads of the pools and the thread of
\* process_batch keep being scheduled and every call they make returns, so a
\* step of the run that stays possible is eventually taken; stop() is a
\* request from outside and is under no such obligation
RunStep == Next /\ ~Stop

\* the first pool with one thread (work waits in its queue when stop() comes)
\* or with MaxWorkers threads, the second pool with one thread
InitLive ==
    \E m \in Modes, n \in 0..MaxItems, w1 \in {1, MaxWorkers} :
        InitWith(m, n, w1, 1) /\ track_order = FALSE

SpecLive == InitLive /\ [][Next]_vars /\ WF_vars(RunStep)

\* ------------------------------------------------- a reader of the stats

engineVars == <<cfgVars, is_running, stats, results, pc, stage1_futures,
                stage2_futures, step, yielded1, yielded2, llm_queue, fileVars,
                saved, summary, histVars, finish_order, early2>>

\* get_stats, called from the request thread of /stats at any moment: a copy
\* of self.stats made while holding self.lock
GetStats ==
    /\ snapshot' = stats
    /\ UNCHANGED <<engineVars, dbVars, counterVars, routeVars>>

NextStats ==
    \/ Next
    \/ GetStats

\* the counters are written by the thread running process_batch only, so the
\* pools of the monitored run have one thread each
InitStats ==
    \E m \in Modes, n \in 0..MaxItems : InitWith(m, n, 1, 1) /\ track_order = FALSE

SpecStats == InitStats /\ [][NextStats]_vars

\* --------------------------------- the gauges ocr_active, llm_active, in_queue
\* A pipeline run nobody stops, with every update_stats call of the gauges in
\* two steps: the keyword arguments are evaluated from self.stats before the
\* call (no lock held), update_stats then stores them while holding the lock.
\* The stage functions are one step each; the counters of completed items and
\* the rest of process_batch are the actions of the pipeline above.

runVars == <<cfgVars, is_running, fileVars, saved, summary, histVars,
             finish_order, early2, dbVars, snapshot, routeVars>>

\* _stage1_ocr is called on a pool thread: ocr_active = self.stats["ocr_active"] + 1
\* is evaluated
Stage1OcrCall(i) ==
    /\ mode = "pipeline" /\ pc # "idle"
    /\ NextQueued1(i)
    /\ WorkerAvailable(Cardinality(Executing1), max_ocr_workers)
    /\ stage1_futures' = [stage1_futures EXCEPT ![i] = "running"]
    /\ step' = [step EXCEPT ![i] = "enter"]
    /\ kwargs' = [kwargs EXCEPT ![i] = [NoKwargs EXCEPT !.ocr_active = counters.ocr_active + 1]]
    /\ UNCHANGED <<runVars, stats, results, pc, stage2_futures, yielded1, yielded2,
                   llm_queue, counters, returning>>

\* update_stats(ocr_active=...): with self.lock: self.stats.update(kwargs)
Stage1OcrEnter(i) ==
    /\ stage1_futures[i] = "running" /\ step[i] = "enter"
    /\ counters' = [counters EXCEPT !.ocr_active = kwargs[i].ocr_active]
    /\ step' = [step EXCEPT ![i] = "body"]
    /\ UNCHANGED <<runVars, stats, results, pc, stage1_futures, stage2_futures,
                   yielded1, yielded2, llm_queue, kwargs, returning>>

\* get_db_context and process_stage1_ocr return or raise; the finally clause
\* evaluates ocr_active = self.stats["ocr_active"] - 1
Stage1OcrBody(i) ==
    /\ stage1_futures[i] = "running" /\ step[i] = "body"
    /\ \E outcome \in {"success", "failed", "raised"} :
          returning' = [returning EXCEPT ![i] = outcome]
    /\ kwargs' = [kwargs EXCEPT ![i] = [NoKwargs EXCEPT !.ocr_active = counters.ocr_active - 1]]
    /\ step' = [step EXCEPT ![i] = "leave"]
    /\ UNCHANGED <<runVars, stats, results, pc, stage1_futures, stage2_futures,
                   yielded1, yielded2, llm_queue, counters>>

\* the update_stats call of the finally clause; the future is done
Stage1OcrLeave(i) ==
    /\ stage1_futures[i] = "running" /\ step[i] = "leave"
    /\ counters' = [counters EXCEPT !.ocr_active = kwargs[i].ocr_active]
    /\ stage1_futures' = [stage1_futures EXCEPT ![i] = returning[i]]
    /\ step' = [step EXCEPT ![i] = "none"]
    /\ returning' = [returning EXCEPT ![i] = "none"]
    /\ UNCHANGED <<runVars, stats, results, pc, stage2_futures, yielded1, yielded2,
                   llm_queue, kwargs>>

\* first as_completed loop: a finished stage-1 future is handed out.  Success:
\* in_queue = self.stats["in_queue"] + 1 is evaluated; otherwise the result is
\* recorded
CollectStage1(i) ==
    /\ mode = "pipeline" /\ pc = "loop1" /\ is_running
    /\ i \in Items \ yielded1
    /\ stage1_futures[i] \in Done
    /\ yielded1' = yielded1 \cup {i}
    /\ IF stage1_futures[i] = "success"
          THEN /\ kwargs' = [kwargs EXCEPT ![0] = [NoKwargs EXCEPT !.in_queue = counters.in_queue + 1]]
               /\ pc' = "submit"
               /\ UNCHANGED <<stats, results>>
          ELSE /\ Record(i, IF stage1_futures[i] = "raised" THEN "failed"
                                                           ELSE stage1_futures[i])
               /\ UNCHANGED <<kwargs, pc>>
    /\ UNCHANGED <<runVars, stage1_futures, stage2_futures, step, yielded2,
                   llm_queue, counters, returning>>

\* update_stats(in_queue=...) and llm_executor.submit for the item handed out
SubmitStage2(i) ==
    /\ pc = "submit"
    /\ i \in yielded1 /\ stage1_futures[i] = "success" /\ stage2_futures[i] = "none"
    /\ counters' = [counters EXCEPT !.in_queue = kwargs[0].in_queue]
    /\ stage2_futures' = [stage2_futures EXCEPT ![i] = "queued"]
    /\ llm_queue' = Append(llm_queue, i)
    /\ pc' = "loop1"
    /\ UNCHANGED <<runVars, stats, results, stage1_futures, step, yielded1,
                   yielded2, kwargs, returning>>

\* _stage2_llm is called on a thread of llm_executor: llm_active + 1 and
\* in_queue - 1 are evaluated
Stage2LlmCall(i) ==
    /\ llm_queue # <<>> /\ i = Head(llm_queue)
    /\ WorkerAvailable(Cardinality(Executing2), max_llm_workers)
    /\ llm_queue' = Tail(llm_queue)
    /\ stage2_futures' = [stage2_futures EXCEPT ![i] = "running"]
    /\ step' = [step EXCEPT ![i] = "enter"]
    /\ kwargs' = [kwargs EXCEPT ![i] = [NoKwargs EXCEPT
                                          !.llm_active = counters.llm_active + 1,
                                          !.in_queue = counters.in_queue - 1]]
    /\ UNCHANGED <<runVars, stats, results, pc, stage1_futures, yielded1, yielded2,
                   counters, returning>>

\* update_stats(llm_active=..., in_queue=...)
Stage2LlmEnter(i) ==
    /\ stage2_futures[i] = "running" /\ step[i] = "enter"
    /\ counters' = [counters EXCEPT !.llm_active = kwargs[i].llm_active,
                                    !.in_queue = kwargs[i].in_queue]
    /\ step' = [step EXCEPT ![i] = "body"]
    /\ UNCHANGED <<runVars, stats, results, pc, stage1_futures, stage2_futures,
                   yielded1, yielded2, llm_queue, kwargs, returning>>

\* get_db_context and process_stage2_llm return or raise; the finally clause
\* evaluates llm_active = self.stats["llm_active"] - 1
Stage2LlmBody(i) ==
    /\ stage2_futures[i] = "running" /\ step[i] = "body"
    /\ \E outcome \in {"success", "failed", "raised"} :
          returning' = [returning EXCEPT ![i] = outcome]
    /\ kwargs' = [kwargs EXCEPT ![i] = [NoKwargs EXCEPT !.llm_active = counters.llm_active - 1]]
    /\ step' = [step EXCEPT ![i] = "leave"]
    /\ UNCHANGED <<runVars, stats, results, pc, stage1_futures, stage2_futures,
                   yielded1, yielded2, llm_queue, counters>>

\* the update_stats call of the finally clause; the future is done
Stage2LlmLeave(i) ==
    /\ stage2_futures[i] = "running" /\ step[i] = "leave"
    /\ counters' = [counters EXCEPT !.llm_active = kwargs[i].llm_active]
    /\ stage2_futures' = [stage2_futures EXCEPT ![i] = returning[i]]
    /\ step' = [step EXCEPT ![i] = "none"]
    /\ returning' = [returning EXCEPT ![i] = "none"]
    /\ UNCHANGED <<runVars, stats, results, pc, stage1_futures, yielded1, yielded2,
                   llm_queue, kwargs>>

InitCounters ==
    \E n \in 1..MaxItems, w1 \in 1..MaxWorkers, w2 \in 1..MaxWorkers :
        InitWith("pipeline", n, w1, w2) /\ track_order = FALSE

NextCounters ==
    \/ ProcessBatchStart
    \/ \E i \in Items : Stage1OcrCall(i)
    \/ \E i \in Items : Stage1OcrEnter(i)
    \/ \E i \in Items : Stage1OcrBody(i)
    \/ \E i \in Items : Stage1OcrLeave(i)
    \/ \E i \in Items : CollectStage1(i)
    \/ \E i \in Items : SubmitStage2(i)
    \/ PipelineEndLoop1
    \/ \E i \in Items : Stage2LlmCall(i)
    \/ \E i \in Items : Stage2LlmEnter(i)
    \/ \E i \in Items : Stage2LlmBody(i)
    \/ \E i \in Items : Stage2LlmLeave(i)
    \/ \E i \in Items : PipelineCollect2(i)
    \/ PipelineEndLoop2
    \/ PipelineReturn

SpecCounters == InitCounters /\ [][NextCounters]_vars

\* ---------------------------------------------- the persistence layer alone

\* one _save_to_database call in its own session, with the try block of the
\* stage around it: it commits and the stage goes on, or a statement raises,
\* the except clause rolls the transaction back and raises again, and the
\* stage ends failed and moves the file (still in the upload directory) to
\* FAILED_DIR
SaveToDatabaseCall ==
    \E id \in DocumentIds, committed \in BOOLEAN :
    \E data \in (IF committed THEN ExtractedData ELSE RaisingData) :
    \E point \in (IF committed THEN {4} ELSE SavePoints) :
    \E ok \in (IF committed THEN {TRUE} ELSE BOOLEAN) :
        /\ db' = IF committed THEN SaveToDatabase(db, id, data)
                  ELSE Rollback(db, SessionAt(db, id, data, point))
        /\ last_call' = [document_id |-> id, committed |-> committed,
                         rerun |-> RowsOf(db.document_details, id) # <<>>,
                         data |-> IF committed THEN data ELSE NoCall.data,
                         old_buyers |-> RowsOf(db.buyer_details, id),
                         status |-> IF committed THEN "none" ELSE "failed",
                         file |-> IF committed THEN "source"
                                  ELSE RouteOnAbort("failed", "source", ok)]
        /\ UNCHANGED <<engineVars, snapshot, counterVars, routeVars>>

InitDb == InitWith("pipeline", 0, 1, 1) /\ track_order = FALSE
NextDb == SaveToDatabaseCall
SpecDb == InitDb /\ [][NextDb]_vars

\* A pipeline run whose batch is one larger than the capacity of the channel
\* between the pools, with a single LLM worker.
InitBacklog ==
    \E w1 \in 1..MaxWorkers :
        InitWith("pipeline", STAGE2_QUEUE_SIZE + 1, w1, 1) /\ track_order = FALSE

NextBacklog ==
    \/ ProcessBatchStart
    \/ Stop
    \/ \E i \in Items : Stage1Start(i)
    \/ \E i \in Items : Stage1FeeDone(i)
    \/ \E i \in Items : Stage1OcrDone(i)
    \/ \E i \in Items : Stage2Start(i)
    \/ \E i \in Items : Stage2LlmDone(i)
    \/ \E i \in Items : Stage2SaveDone(i)
    \/ \E i \in Items : Stage2YoloDone(i)
    \/ \E i \in Items : PipelineCollect1(i)
    \/ PipelineEndLoop1
    \/ \E i \in Items : PipelineCollect2(i)
    \/ PipelineEndLoop2
    \/ PipelineReturn

SpecBacklog == InitBacklog /\ [][NextBacklog]_vars

\* ------------------------------------------- the order of the recorded results
\* A pipeline run in which the order the futures finish in is kept, and
\* as_completed hands the futures out as concurrent.futures does: first the
\* futures that had finished when as_completed was called, in no particular
\* order, then the others in the order they finish.  The first as_completed
\* call is made at the end of the submit loop, the second one when the first
\* loop is exhausted.

\* the position of a future in finish_order
FinishPos(stage, i) ==
    CHOOSE k \in 1..Len(finish_order) :
        finish_order[k] = [stage |-> stage, item |-> i]

AsCompletedNext1(i) ==
    /\ stage1_futures[i] \in Done
    /\ \A j \in Items \ yielded1 :
          stage1_futures[j] \in Done => FinishPos(1, i) <= FinishPos(1, j)

AsCompletedNext2(i) ==
    /\ stage2_futures[i] \in Done
    /\ IF early2 \ yielded2 # {}
          THEN i \in early2
          ELSE \A j \in Submitted2 \ yielded2 :
                  stage2_futures[j] \in Done => FinishPos(2, i) <= FinishPos(2, j)

OrderedCollect1(i) == AsCompletedNext1(i) /\ PipelineCollect1(i)
OrderedCollect2(i) == AsCompletedNext2(i) /\ PipelineCollect2(i)

InitOrder ==
    \E n \in 0..MaxItems, w1 \in 1..MaxWorkers, w2 \in 1..MaxWorkers :
        InitWith("pipeline", n, w1, w2) /\ track_order = TRUE

NextOrder ==
    \/ ProcessBatchStart
    \/ Stop
    \/ \E i \in Items : Stage1Start(i)
    \/ \E i \in Items : Stage1FeeDone(i)
    \/ \E i \in Items : Stage1OcrDone(i)
    \/ \E i \in Items : Stage2Start(i)
    \/ \E i \in Items : Stage2LlmDone(i)
    \/ \E i \in Items : Stage2SaveDone(i)
    \/ \E i \in Items : Stage2YoloDone(i)
    \/ \E i \in Items : OrderedCollect1(i)
    \/ PipelineEndLoop1
    \/ \E i \in Items : OrderedCollect2(i)
    \/ PipelineEndLoop2
    \/ PipelineReturn

SpecOrder == InitOrder /\ [][NextOrder]_vars

\* ------------------------------------------------- the start and stop routes

\* an Optional[int] field of StartProcessingRequest: absent, or one value
Optional(S) == {{}} \cup {{v} : v \in S}
Given(arg) == CHOOSE v \in arg : TRUE
OutOfRange(arg, lo, hi) == \E v \in arg : v < lo \/ v > hi

\* the requests tried: each field absent, below its range, inside, above
StartRequests ==
    [ocr_workers : Optional({0, 3, 21}), llm_workers : Optional({0, 3, 21}),
     stage2_queue_size : Optional({0, 5, 11}), ocr_page_workers : Optional({0, 4, 9})]

\* the frame of the route handlers: the run itself is not looked into
routeFrame == <<mode, nfiles, track_order, stats, results, pc, stage1_futures,
                stage2_futures, step, yielded1, yielded2, llm_queue, fileVars, saved,
                summary, histVars, finish_order, early2, dbVars, snapshot,
                counterVars>>

Active == {k \in 1..MaxStarts : tasks[k] \in {"running", "stopping"}}
Scheduled == {k \in 1..MaxStarts : tasks[k] = "scheduled"}

\* POST /process/start, pipeline branch.  The handler is a coroutine without an
\* await, so it runs as one step.  In the order of the code: the is_running
\* check; no files; stage2_queue_size checked and stored; ocr_page_workers
\* checked and stored; the worker counts checked, stored, and process_batch
\* handed to BackgroundTasks.  Every HTTPException ends the handler there.
StartBatchProcessing(req, files) ==
    /\ nrequests < MaxStarts
    /\ nrequests' = nrequests + 1
    /\ LET queue_bad == OutOfRange(req.stage2_queue_size, 1, 10)
           page_bad == OutOfRange(req.ocr_page_workers, 1, 8)
           ocr_workers == IF req.ocr_workers = {} THEN MAX_OCR_WORKERS
                                                   ELSE Given(req.ocr_workers)
           llm_workers == IF req.llm_workers = {} THEN MAX_LLM_WORKERS
                                                   ELSE Given(req.llm_workers)
           workers_bad == ocr_workers < 1 \/ ocr_workers > 20
                          \/ llm_workers < 1 \/ llm_workers > 20
           queue_set == IF req.stage2_queue_size = {} \/ queue_bad THEN settings
                        ELSE [settings EXCEPT !.STAGE2_QUEUE_SIZE = Given(req.stage2_queue_size)]
           page_set == IF req.ocr_page_workers = {} \/ page_bad THEN queue_set
                       ELSE [queue_set EXCEPT !.OCR_PAGE_WORKERS = Given(req.ocr_page_workers)]
       IN  IF is_running
              THEN /\ response' = "rejected"
                   /\ UNCHANGED <<settings, max_ocr_workers, max_llm_workers, tasks>>
           ELSE IF ~files
              THEN /\ response' = "no files"
                   /\ UNCHANGED <<settings, max_ocr_workers, max_llm_workers, tasks>>
           ELSE IF queue_bad
              THEN /\ response' = "rejected"
                   /\ UNCHANGED <<settings, max_ocr_workers, max_llm_workers, tasks>>
           ELSE IF page_bad
              THEN /\ response' = "rejected"
                   /\ settings' = queue_set
                   /\ UNCHANGED <<max_ocr_workers, max_llm_workers, tasks>>
           ELSE IF workers_bad
              THEN /\ response' = "rejected"
                   /\ settings' = page_set
                   /\ UNCHANGED <<max_ocr_workers, max_llm_workers, tasks>>
           ELSE /\ response' = "accepted"
                /\ settings' = page_set
                /\ max_ocr_workers' = ocr_workers
                /\ max_llm_workers' = llm_workers
                /\ tasks' = [tasks EXCEPT ![nrequests + 1] = "scheduled"]
    /\ UNCHANGED <<routeFrame, is_running>>

\* the thread pool of the server begins a scheduled process_batch: is_running = True
BeginProcessBatch(k) ==
    /\ tasks[k] = "scheduled"
    /\ tasks' = [tasks EXCEPT ![k] = "running"]
    /\ is_running' = TRUE
    /\ UNCHANGED <<routeFrame, max_ocr_workers, max_llm_workers, settings, response,
                   nrequests>>

\* POST /process/stop: stop() clears the flag if it is set; the calls of
\* process_batch in progress are the ones that were told to stop
StopBatchProcessing ==
    /\ is_running
    /\ is_running' = FALSE
    /\ tasks' = [k \in 1..MaxStarts |-> IF tasks[k] = "running" THEN "stopping" ELSE tasks[k]]
    /\ UNCHANGED <<routeFrame, max_ocr_workers, max_llm_workers, settings, response,
                   nrequests>>

\* a process_batch call leaves its with block (its workers are joined) and its
\* finally clause clears the flag
ReturnProcessBatch(k) ==
    /\ k \in Active
    /\ tasks' = [tasks EXCEPT ![k] = "returned"]
    /\ is_running' = FALSE
    /\ UNCHANGED <<routeFrame, max_ocr_workers, max_llm_workers, settings, response,
                   nrequests>>

InitRoutes ==
    InitWith("pipeline", 0, MAX_OCR_WORKERS, MAX_LLM_WORKERS) /\ track_order = FALSE

NextRoutes ==
    \/ \E req \in StartRequests, files \in BOOLEAN : StartBatchProcessing(req, files)
    \/ \E k \in 1..MaxStarts : BeginProcessBatch(k)
    \/ StopBatchProcessing
    \/ \E k \in 1..MaxStarts : ReturnProcessBatch(k)

SpecRoutes == InitRoutes /\ [][NextRoutes]_vars

\* ---------------------------------------------------------------- claims

Recorded(i) == \E k \in 1..Len(results) : results[k].id = i

\* C1: in every state of a run of any of the three engines the counters
\* satisfy successful + failed + stopped <= total.
C1_CountersWithinTotal ==
    stats.successful + stats.failed + stats.stopped <= stats.total

\* a run in which both a success and a failure have been counted and stop()
\* was called
C1_Witness ==
    /\ stop_requested
    /\ stats.successful >= 1
    /\ stats.failed >= 1

\* C2: once process_batch has returned (every submitted work item has run),
\* successful + failed + stopped = total.
C2_DrainedCountersEqualTotal ==
    pc = "returned" =>
        stats.successful + stats.failed + stats.stopped = stats.total

\* C3: in a pipeline run at most max_ocr_workers stage-1 invocations and at
\* most max_llm_workers stage-2 invocations execute at once, and an item
\* beyond the first max_ocr_workers has left the intake only if an earlier
\* item has left stage 1.
C3_PoolLimits ==
    mode = "pipeline" =>
        /\ Cardinality(Executing1) <= max_ocr_workers
        /\ Cardinality(Executing2) <= max_llm_workers
        /\ \A i \in Items :
              (i > max_ocr_workers /\ stage1_futures[i] \notin {"none", "queued"})
                 => \E j \in 1..(i - 1) : stage1_futures[j] \in Done

\* the OCR pool is saturated while a further item waits in its intake
C3_Witness ==
    /\ mode = "pipeline"
    /\ nfiles > max_ocr_workers
    /\ Cardinality(Executing1) = max_ocr_workers
    /\ Queued1 # {}

\* C4: the number of items that completed stage 1 with Success and wait to
\* start stage 2 never exceeds STAGE2_QUEUE_SIZE.
C4_ChannelWithinCapacity ==
    mode = "pipeline" => Len(llm_queue) <= STAGE2_QUEUE_SIZE

\* Success results of stage 1 not yet accepted into a channel of capacity
\* STAGE2_QUEUE_SIZE: not yet handed over, or handed over beyond the capacity
Unaccepted ==
    {i \in Items : /\ stage1_futures[i] = "success"
                   /\ \/ stage2_futures[i] = "none"
                      \/ \E k \in 1..Len(llm_queue) :
                            llm_queue[k] = i /\ k > STAGE2_QUEUE_SIZE}

\* C5: the hand-off is a blocking put: every Success result not yet accepted
\* into the channel keeps its stage-1 worker, so the workers executing an item
\* and the unaccepted results together never exceed max_ocr_workers.
C5_BlockingPut ==
    (mode = "pipeline" /\ is_running) =>
        Cardinality(Executing1) + Cardinality(Unaccepted) <= max_ocr_workers

\* C6: an item that was still in the intake when stop() was called begins no
\* processing sub-step.
C6_NoSubStepAfterStop ==
    \A i \in pending_at_stop :
        /\ step[i] = "none"
        /\ stage1_futures[i] # "running"
        /\ stage2_futures[i] # "running"

\* C7: every item that was executing when stop() was called has a terminal
\* result recorded in results and counted when process_batch returns.
C7_RunningAtStopRecorded ==
    pc = "returned" =>
        /\ \A i \in running_at_stop : Recorded(i)
        /\ stats.processed >= Cardinality(running_at_stop)

\* C8: an item that ended Stopped has its file where it was before the item
\* was started.
C8_StoppedFileUntouched ==
    \A i \in Items :
        (stage1_futures[i] = "stopped" \/ stage2_futures[i] = "stopped")
            => loc[i] = "source"

\* an item that was executing when stop() was called ended Stopped
C8_Witness ==
    \E i \in running_at_stop :
        stage1_futures[i] = "stopped" \/ stage2_futures[i] = "stopped"

\* C9: a pipeline run of one item with stop() called after its stage 1
\* finished and before its stage 2 began: the item ends Stopped, its file is
\* where it was, and the returned summary has stopped = 1.
C9_SingleItemStoppedBetweenStages ==
    (mode = "pipeline" /\ nfiles = 1 /\ 1 \in waiting_at_stop /\ pc = "returned")
        => /\ stage2_futures[1] = "stopped"
           /\ loc[1] = "source"
           /\ summary.stopped = 1

\* C10: items that were between the stages when stop() was called are still
\* handed to stage 2 and have a terminal result recorded when process_batch
\* returns.
C10_WaitingAtStopDrained ==
    (mode = "pipeline" /\ pc = "returned") =>
        \A i \in waiting_at_stop :
            /\ stage2_futures[i] \in Done
            /\ Recorded(i)

\* ---------------------------------------------------------------------
\* Error handling and file routing.

\* the entries of results for item i
RecordsOf(i) == {k \in 1..Len(results) : results[k].id = i}

\* how many entries of a result list carry the status
CountStatus(rs, status) == Cardinality({k \in 1..Len(rs) : rs[k].status = status})

\* the item's stage function raised out of its future
Raised(i) == stage1_futures[i] = "raised" \/ stage2_futures[i] = "raised"

\* C11: in a run nobody stopped, an item whose stage function raised has
\* exactly one entry in results, with status failed, that entry is counted in
\* processed and failed, and every other item has its entry as well; for the
\* pipeline, the legacy processor and the resolver.
C11_RaisedRecordedAndCounted ==
    (pc = "returned" /\ ~stop_requested) =>
        /\ \A i \in Items : Cardinality(RecordsOf(i)) = 1
        /\ \A i \in Items : Raised(i) =>
               \A k \in RecordsOf(i) : results[k].status = "failed"
        /\ stats.processed = Len(results)
        /\ stats.failed = CountStatus(results, "failed")

\* a sub-step of the item's stage function failed: the function returned failed
FailedBySubStep(i) == stage1_futures[i] = "failed" \/ stage2_futures[i] = "failed"

\* C12: every item that is Failed because a sub-step failed (a stage-1 failure
\* such as too little OCR text included) has its file in the failure location,
\* unless the move itself raised, and the summary of a run nobody stopped
\* counts it in failed.
C12_FailedFileQuarantined ==
    /\ \A i \in Items : (FailedBySubStep(i) /\ i \notin move_failed) => loc[i] = "failed"
    /\ (pc = "returned" /\ ~stop_requested) =>
          summary.failed >= Cardinality({i \in Items : FailedBySubStep(i)})

\* the last stage of the item's engine returned success
LastStageSuccess(i) ==
    IF mode = "pipeline" THEN stage2_futures[i] = "success"
                         ELSE stage1_futures[i] = "success"

PartyNames(table, id) ==
    LET rows == RowsOf(table, id) IN [k \in 1..Len(rows) |-> rows[k].name]

\* C14: after _save_to_database has committed for an identity that already
\* had records, there is exactly one document record and one property record
\* for it, and its buyer and seller rows are exactly the lists of this call.
C14_SecondSaveReplaces ==
    (last_call.committed /\ last_call.rerun) =>
        LET id == last_call.document_id
        IN  /\ Len(RowsOf(db.document_details, id)) = 1
            /\ Len(RowsOf(db.property_details, id)) = 1
            /\ PartyNames(db.buyer_details, id) = last_call.data.buyer_details
            /\ PartyNames(db.seller_details, id) = last_call.data.seller_details

\* a second save that found buyers of the first one and brought fewer
C14_Witness ==
    /\ last_call.committed /\ last_call.rerun
    /\ Len(last_call.old_buyers) > Len(last_call.data.buyer_details)

\* ---------------------------------------------------------------------
\* Snapshots of the counters.

\* C15: every snapshot get_stats returns during a run is consistent:
\* processed = successful + failed + stopped.
C15_SnapshotConsistent ==
    snapshot.processed = snapshot.successful + snapshot.failed + snapshot.stopped

\* a snapshot taken in the middle of a run, after a result was counted and
\* while another item is still being worked on
C15_Witness ==
    /\ snapshot.processed >= 1 /\ snapshot.processed < snapshot.total
    /\ snapshot = stats
    /\ Executing1 \cup Executing2 # {}

\* ---------------------------------------------------------------------
\* The returned summary.

\* C16: the summary returned by the pipeline and by the legacy processor has
\* the keys total, processed, successful, failed, stopped and results, and
\* agrees with itself: processed is the length of results and each status
\* count is the number of results with that status.
C16_SummarySelfConsistent ==
    (pc = "returned" /\ mode \in {"pipeline", "legacy"}) =>
        /\ {"total", "processed", "successful", "failed", "stopped", "results"}
              \subseteq DOMAIN summary
        /\ summary.processed = Len(summary.results)
        /\ summary.successful = CountStatus(summary.results, "success")
        /\ summary.failed = CountStatus(summary.results, "failed")
        /\ summary.stopped = CountStatus(summary.results, "stopped")

\* ---------------------------------------------------------------------
\* Between the stages.

\* C17: an item is submitted to stage 2 only if its stage-1 result is Success;
\* an item whose stage 1 ended Failed or Stopped, or raised, is never handed
\* to _stage2_llm and is in results when process_batch returns.
C17_OnlySuccessReachesStage2 ==
    mode = "pipeline" =>
        /\ \A i \in Items : stage2_futures[i] # "none" => stage1_futures[i] = "success"
        /\ pc = "returned" =>
              \A i \in Items : stage1_futures[i] \in {"failed", "stopped", "raised"} =>
                  Recorded(i) /\ stage2_futures[i] = "none"

\* ---------------------------------------------------------------------
\* The resolver.

\* the resolver finished the image without being stopped
ResolverFinished(i) == mode = "vision" /\ stage1_futures[i] \in {"success", "failed"}

\* a positive fee was extracted and a record exists for the derived document id
Resolvable(i) == vision_input[i].fee = "positive" /\ vision_input[i].prop_exists

Stage1InProgress == {i \in Items : stage1_futures[i] = "running" /\ step[i] \in {"body", "leave"}}
Stage2InProgress == {i \in Items : stage2_futures[i] = "running" /\ step[i] \in {"body", "leave"}}
\* the items submitted to llm_executor whose _stage2_llm has not yet made its
\* first update_stats call
Stage2Waiting ==
    {i \in Items : \/ stage2_futures[i] = "queued"
                   \/ stage2_futures[i] = "running" /\ step[i] = "enter"}

\* C19: no update of a gauge is lost: at every instant ocr_active is the number
\* of stage-1 invocations in progress, llm_active the number of stage-2
\* invocations in progress and in_queue the number of items submitted to stage
\* 2 and not yet started; none is negative and all are 0 when process_batch
\* has returned.
C19_GaugesExact ==
    /\ counters.ocr_active = Cardinality(Stage1InProgress)
    /\ counters.llm_active = Cardinality(Stage2InProgress)
    /\ counters.in_queue = Cardinality(Stage2Waiting)
    /\ counters.ocr_active >= 0 /\ counters.llm_active >= 0 /\ counters.in_queue >= 0
    /\ pc = "returned" => counters = NoKwargs

\* ---------------------------------------------------------------------
\* The order of results.

\* the item's stage function has ended it: stage 1 did not return success, or
\* stage 2 is done
IsTerminal(i) ==
    stage1_futures[i] \in {"failed", "stopped", "raised"} \/ stage2_futures[i] \in Done

\* when the item reached its terminal status, as a position of finish_order
TerminalPos(i) ==
    IF stage1_futures[i] \in {"failed", "stopped", "raised"}
       THEN FinishPos(1, i) ELSE FinishPos(2, i)

\* the position of the item's entry in results
RecordPos(i) == CHOOSE k \in 1..Len(results) : results[k].id = i

\* C20: results are recorded in the order the items reach their terminal
\* status: if A became terminal before B and B is recorded, then A is
\* recorded, and before B; also when A ended in stage 2 and B in stage 1.
C20_RecordedInTerminalOrder ==
    \A a, b \in Items :
        (IsTerminal(a) /\ IsTerminal(b) /\ TerminalPos(a) < TerminalPos(b) /\ Recorded(b))
            => (Recorded(a) /\ RecordPos(a) < RecordPos(b))

\* ------------------------------------------------------------------ C21

\* a file in PROCESSED_DIR has a committed record, and a stage-2 work item
\* exists only for a stage-1 success
ProcessedIsSaved ==
    mode # "vision" => \A i \in Items :
        /\ stage2_futures[i] # "none" => stage1_futures[i] = "success"
        /\ step[i] = "yolo" => saved[i]
        /\ loc[i] = "processed" => saved[i]

\* the sub-steps of the two PDF processors follow each other: the step before
\* _save_to_database is the extraction and validation, taken while running;
\* a record is committed only by the save step; the file reaches PROCESSED_DIR
\* only in or after the save step, with the record committed
InSequence ==
    mode # "vision" => \A i \in Items :
        /\ step'[i] = "llm" /\ step[i] # "llm"
              => IF mode = "pipeline"
                    THEN stage1_futures[i] = "success" /\ stage2_futures[i] = "queued"
                    ELSE step[i] = "ocr"
        /\ step'[i] = "save" /\ step[i] # "save" => step[i] = "llm" /\ is_running
        /\ saved'[i] /\ ~saved[i] => step[i] = "save"
        /\ loc'[i] = "processed" /\ loc[i] # "processed"
              => step[i] \in {"save", "yolo"} /\ saved'[i]

\* C21: within one item the sub-steps run in sequence: stage 2 starts only
\* after stage 1 returned success, _save_to_database is entered only from the
\* extraction and validation step, and the file is moved to PROCESSED_DIR only
\* once the record is committed (a file in PROCESSED_DIR always has a record)
C21_SubStepsInSequence == []ProcessedIsSaved /\ [][InSequence]_vars

\* a pipeline item went through both stages, was committed and moved
C21_Witness ==
    /\ mode = "pipeline"
    /\ \E i \in Items :
          /\ stage1_futures[i] = "success" /\ stage2_futures[i] = "success"
          /\ saved[i] /\ loc[i] = "processed"

\* ------------------------------------------------------------------ C22

\* where an item is: waiting for a stage-1 thread, in a stage-1 or stage-2
\* thread, between the stages, or finished
Pending(i) == stage1_futures[i] = "queued"
Executing(i) == stage1_futures[i] = "running" \/ stage2_futures[i] = "running"
BetweenStages(i) == stage1_futures[i] = "success" /\ stage2_futures[i] \in {"none", "queued"}
                    /\ mode = "pipeline"
Finished(i) == IF mode = "pipeline" /\ stage1_futures[i] = "success"
                  THEN stage2_futures[i] \in Done
                  ELSE stage1_futures[i] \in Done

\* the places of an item exclude each other, the stage-2 queue holds exactly
\* the items waiting between the stages (each once), and an item has at most
\* one result
OnePlace ==
    \A i \in Items :
        /\ ~(Pending(i) /\ (Executing(i) \/ BetweenStages(i) \/ Finished(i)))
        /\ ~(Executing(i) /\ (BetweenStages(i) \/ Finished(i)))
        /\ ~(BetweenStages(i) /\ Finished(i))
        /\ ~(stage1_futures[i] = "running" /\ stage2_futures[i] = "running")
        /\ pc # "idle" => stage1_futures[i] # "none"
        /\ Cardinality({k \in 1..Len(llm_queue) : llm_queue[k] = i})
              = IF stage2_futures[i] = "queued" THEN 1 ELSE 0
        /\ stage2_futures[i] # "none" => stage1_futures[i] = "success" /\ mode = "pipeline"
        /\ Cardinality(RecordsOf(i)) <= 1
        /\ Recorded(i) => Finished(i)

\* a future moves only forward: queued, running, done; it is queued once, and
\* a stage-2 work item is made once and only from a stage-1 success
OnlyForward ==
    \A i \in Items :
        /\ stage1_futures[i] \in Done => stage1_futures'[i] = stage1_futures[i]
        /\ stage2_futures[i] \in Done => stage2_futures'[i] = stage2_futures[i]
        /\ stage1_futures[i] = "running" => stage1_futures'[i] \in Done \cup {"running"}
        /\ stage2_futures[i] = "running" => stage2_futures'[i] \in Done \cup {"running"}
        /\ stage1_futures[i] = "queued" => stage1_futures'[i] # "none"
        /\ stage2_futures[i] = "queued" => stage2_futures'[i] # "none"
        /\ stage2_futures'[i] = "queued" /\ stage2_futures[i] # "queued"
              => stage2_futures[i] = "none" /\ stage1_futures[i] = "success"

\* C22: every item is dispatched to stage 1 exactly once and to stage 2 at most
\* once, is in one place at a time (pending, executing, between the stages or
\* finished), makes no transition after it finished, and a failed item is
\* never submitted again
C22_DispatchedOnce == []OnePlace /\ [][OnlyForward]_vars

\* an item went queued, running, success in stage 1 and is executing in stage 2
\* while another one failed in stage 1 and was recorded
C22_Witness ==
    /\ mode = "pipeline"
    /\ \E i, j \in Items :
          /\ stage1_futures[i] = "success" /\ stage2_futures[i] = "running"
          /\ stage1_futures[j] = "failed" /\ Recorded(j) /\ stage2_futures[j] = "none"

\* ------------------------------------------------------------------ C23

\* the status the item's last stage returned
LastStageStatus(i) ==
    IF stage2_futures[i] \in Terminal THEN stage2_futures[i] ELSE stage1_futures[i]

ReturnedQuiet ==
    pc = "returned" => /\ ~is_running
                       /\ Executing1 = {} /\ Executing2 = {}
                       /\ Queued1 = {} /\ llm_queue = <<>>

\* C24: when every call returns, a process_batch that began returns, also
\* after stop() and after a stage raised; at the return is_running is false
\* and no worker of the run is still executing
C24_RunTerminates == ((pc # "idle") ~> (pc = "returned")) /\ []ReturnedQuiet

\* a stopped run in which a stage raised has returned
C24_Witness ==
    /\ pc = "returned" /\ stop_requested
    /\ \E i \in Items : stage1_futures[i] = "raised" \/ stage2_futures[i] = "raised"

\* ------------------------------------------------------------------ C25

\* C25: at most one process_batch call of the processor is in progress at a
\* time, and a start request is not accepted while one is in progress or is
\* scheduled and has not begun: at most one call is scheduled or in progress
C25_OneRunAtATime == Cardinality(Active \cup Scheduled) <= 1

\* ------------------------------------------------------------------ C26

\* a call of process_batch was told to stop and has not returned
Draining == \E k \in 1..MaxStarts : tasks[k] = "stopping"

\* C26: from stop() until the stopped process_batch has returned, is_running
\* stays false and no start request is accepted
C26_FlagStaysFalseWhileDraining ==
    [][Draining => /\ (~is_running => ~is_running')
                   /\ ~(nrequests' # nrequests /\ response' = "accepted")]_vars

\* ------------------------------------------------------------------ C30

\* C30: a start request that is rejected (a run is active, or a parameter is
\* out of range) changes neither the settings nor the worker counts of the
\* processor and schedules no run
C30_RejectedStartChangesNothing ==
    [][nrequests' # nrequests /\ response' = "rejected"
          => /\ settings' = settings
             /\ max_ocr_workers' = max_ocr_workers
             /\ max_llm_workers' = max_llm_workers
             /\ tasks' = tasks]_vars

\* ------------------------------------------------------------------ C27

\* a _save_to_database call that raised
SaveRaised == last_call' # last_call /\ ~last_call'.committed

C28_RecordOnlyForSuccess ==
    \A i \in Items :
        (Finished(i) /\ saved[i]) => LastStageStatus(i) = "success"

\* ------------------------------------------------------------------ C29

\* C29: when process_batch of a PDF processor has returned, as many files are
\* in PROCESSED_DIR as the summary counts successful, also after stop() (runs
\* in which a file operation raised are left aside)
C29_ProcessedEqualsSuccessful ==
    (pc = "returned" /\ mode # "vision" /\ move_failed = {})
        => Cardinality({i \in Items : loc[i] = "processed"}) = summary.successful
====
